---- MODULE Spec2Model ----
(***************************************************************************)
(* Seam carving ("slimming") of a PNM image: src/code/slimming.c.          *)
(*                                                                         *)
(* The module models reduceImageWidth() as a state machine, one action     *)
(* per call it makes, and every helper of slimming.c as an operator that   *)
(* computes what the C code computes.  Indices are 0-based as in C: an     *)
(* array is a function on 0..n-1.  Costs are C floats that only ever hold  *)
(* sums of small integers, so they are modelled as integers.  A size_t     *)
(* that wraps below 0 is modelled as a negative integer, which every range *)
(* test of the code treats as "too big".                                   *)
(***************************************************************************)
EXTENDS Integers, Sequences, FiniteSets, TLC

(* Bounds of the model: the largest width and height of an input image,   *)
(* the largest number of pixels of an input image, and the largest k.      *)
MaxWidth == 3
MaxHeight == 3
MaxPixels == 9
MaxK == 3

(* The NULL pointer. *)
NULL == [ptr |-> "NULL"]
(* A local pointer variable that was declared and never assigned. *)
UNINIT == [ptr |-> "UNINIT"]
(* The content of freshly malloc'ed pixels. *)
RAW == [ptr |-> "RAW"]
(* FLT_MAX of <float.h>: larger than every cost of the model. *)
FLT_MAX == 2147483647

(* The values a float read outside its row can have (an out-of-bounds     *)
(* read is undefined behaviour: the value is whatever lies there).         *)
Garbage == {-1, 0, 1000}

(* The pixel colours the input images are drawn from. *)
Colours == { [red |-> 0, green |-> 0, blue |-> 0],
             [red |-> 6, green |-> 3, blue |-> 0] }

(* ----------------------------------------------------------------------- *)
(* EnergyModel                                                             *)
(* ----------------------------------------------------------------------- *)

(* abs() of <stdlib.h> on int. *)
Abs(x) == IF x < 0 THEN -x ELSE x

(* color_value(): the channel of pixel (i, j), or a negative error code.   *)
(* i and j are size_t: i - 1 with i = 0 wraps to SIZE_MAX >= height.       *)
color_value(image, i, j, channel) ==
  IF image = NULL THEN -1
  ELSE IF image.data = NULL THEN -2
  ELSE IF i < 0 \/ i >= image.height THEN -3
  ELSE IF j < 0 \/ j >= image.width THEN -4
  ELSE image.data.pixels[(i * image.width) + j][channel]

(* HalfDiff with the abs() forgotten: the signed difference, halved. *)
HalfDiffSigned(a, b) == (a - b) \div 2

(* HalfDiff with the / 2 forgotten. *)
HalfDiffUnhalved(a, b) == Abs(a - b)

(* abs(a - b) / 2 in int arithmetic (the quotient truncates). *)
HalfDiff(a, b) == Abs(a - b) \div 2

(* color_energy(): the nine cases of the code, in the code's order. *)
color_energy(image, i, j, channel) ==
  LET v(a, b) == color_value(image, a, b, channel)
      h == image.height
      w == image.width
  IN
  IF image = NULL THEN -1
  ELSE IF image.data = NULL THEN -2
  ELSE IF i < 0 \/ i >= h THEN -3
  ELSE IF j < 0 \/ j >= w THEN -4
  ELSE IF i = h - 1 /\ j = w - 1 THEN                  \* bottom right corner
    HalfDiff(v(i - 1, j), v(i, j)) + HalfDiff(v(i, j - 1), v(i, j))
  ELSE IF i = 0 /\ j = 0 THEN                          \* top left corner
    HalfDiff(v(i, j), v(i + 1, j)) + HalfDiff(v(i, j), v(i, j + 1))
  ELSE IF i = 0 /\ j = w - 1 THEN                      \* top right corner
    HalfDiff(v(i, j), v(i + 1, j)) + HalfDiff(v(i, j - 1), v(i, j))
  ELSE IF i = h - 1 /\ j = 0 THEN                      \* bottom left corner
    HalfDiff(v(i - 1, j), v(i, j)) + HalfDiff(v(i, j), v(i, j + 1))
  ELSE IF i = 0 /\ j < w - 1 /\ j > 0 THEN             \* top
    HalfDiff(v(i, j), v(i + 1, j)) + HalfDiff(v(i, j - 1), v(i, j + 1))
  ELSE IF i = h - 1 /\ j < w - 1 /\ j > 0 THEN         \* bottom
    HalfDiff(v(i - 1, j), v(i, j)) + HalfDiff(v(i, j - 1), v(i, j + 1))
  ELSE IF j = 0 /\ i < h - 1 /\ i > 0 THEN             \* left
    HalfDiff(v(i - 1, j), v(i + 1, j)) + HalfDiff(v(i, j), v(i, j + 1))
  ELSE IF j = w - 1 /\ i < h - 1 /\ i > 0 THEN         \* right
    HalfDiff(v(i - 1, j), v(i + 1, j)) + HalfDiff(v(i, j - 1), v(i, j))
  ELSE                                                 \* not on an edge
    HalfDiff(v(i - 1, j), v(i + 1, j)) + HalfDiff(v(i, j - 1), v(i, j + 1))

(* The pixels color_energy asks color_value for at (i, j), in range or     *)
(* not: the arguments of the calls of the case the code takes.             *)
NeighboursRead(image, i, j) ==
  LET h == image.height
      w == image.width
  IN
  IF i = h - 1 /\ j = w - 1 THEN {<<i - 1, j>>, <<i, j>>, <<i, j - 1>>}
  ELSE IF i = 0 /\ j = 0 THEN {<<i, j>>, <<i + 1, j>>, <<i, j + 1>>}
  ELSE IF i = 0 /\ j = w - 1 THEN {<<i, j>>, <<i + 1, j>>, <<i, j - 1>>}
  ELSE IF i = h - 1 /\ j = 0 THEN {<<i - 1, j>>, <<i, j>>, <<i, j + 1>>}
  ELSE IF i = 0 /\ j < w - 1 /\ j > 0
    THEN {<<i, j>>, <<i + 1, j>>, <<i, j - 1>>, <<i, j + 1>>}
  ELSE IF i = h - 1 /\ j < w - 1 /\ j > 0
    THEN {<<i - 1, j>>, <<i, j>>, <<i, j - 1>>, <<i, j + 1>>}
  ELSE IF j = 0 /\ i < h - 1 /\ i > 0
    THEN {<<i - 1, j>>, <<i + 1, j>>, <<i, j>>, <<i, j + 1>>}
  ELSE IF j = w - 1 /\ i < h - 1 /\ i > 0
    THEN {<<i - 1, j>>, <<i + 1, j>>, <<i, j - 1>>, <<i, j>>}
  ELSE {<<i - 1, j>>, <<i + 1, j>>, <<i, j - 1>>, <<i, j + 1>>}

(* pixel_energy(): the sum of the three channels, or a negative error. *)
pixel_energy(image, i, j) ==
  IF image = NULL THEN -1
  ELSE IF image.data = NULL THEN -2
  ELSE IF i < 0 \/ i >= image.height THEN -3
  ELSE IF j < 0 \/ j >= image.width THEN -4
  ELSE color_energy(image, i, j, "red") + color_energy(image, i, j, "green")
       + color_energy(image, i, j, "blue")

(* ----------------------------------------------------------------------- *)
(* CostTable                                                               *)
(* ----------------------------------------------------------------------- *)

min_with_two_arguments(firstValue, secondValue) ==
  IF firstValue < secondValue THEN firstValue ELSE secondValue

min_with_three_arguments(firstValue, secondValue, thirdValue) ==
  IF firstValue < secondValue /\ firstValue < thirdValue THEN firstValue
  ELSE IF secondValue < thirdValue THEN secondValue
  ELSE thirdValue

(* table[i][j] as the C code reads it: a row is an array of as many floats *)
(* as calloc gave it; an index outside it reads the garbage value g.       *)
Cell(row, j, g) == IF j \in DOMAIN row THEN row[j] ELSE g

(* One line i >= 1 of compute_cost_table, from the line above: the left    *)
(* edge, then the middle, then the right edge (the last write wins).       *)
ComputeLine(image, i, above, g) ==
  LET w == image.width IN
  [j \in DOMAIN above |->
     IF j = w - 1 THEN
       pixel_energy(image, i, w - 1)
         + min_with_two_arguments(Cell(above, w - 1, g), Cell(above, w - 2, g))
     ELSE IF j >= 1 /\ j < w - 1 THEN
       pixel_energy(image, i, j)
         + min_with_three_arguments(Cell(above, j, g), Cell(above, j + 1, g),
                                    Cell(above, j - 1, g))
     ELSE IF j = 0 THEN
       pixel_energy(image, i, 0)
         + min_with_two_arguments(Cell(above, 0, g), Cell(above, 1, g))
     ELSE above[j]]

RECURSIVE ComputeLines(_, _, _, _)
ComputeLines(image, table, i, g) ==
  IF i >= image.height THEN table
  ELSE ComputeLines(image,
                    [table EXCEPT ![i] = ComputeLine(image, i, table[i - 1], g)],
                    i + 1, g)

(* compute_cost_table(): every row is calloc(image->width) floats. *)
compute_cost_table(image, g) ==
  IF image = NULL \/ image.data = NULL THEN NULL
  ELSE
    LET zero == [i \in 0..(image.height - 1) |->
                   [j \in 0..(image.width - 1) |-> 0]]
        first == [zero EXCEPT ![0] =
                   [j \in 0..(image.width - 1) |-> pixel_energy(image, 0, j)]]
    IN IF \E j \in 0..(image.width - 1) : first[0][j] < 0 THEN NULL
       ELSE [width |-> image.width, height |-> image.height,
             table |-> ComputeLines(image, first, 1, g)]

(* ----------------------------------------------------------------------- *)
(* SeamFinder                                                              *)
(* ----------------------------------------------------------------------- *)

(* find_optimal_pixel(): the pixel of line currentLine - 1 that the code   *)
(* picks as the predecessor of (currentLine, currentRow).                  *)
find_optimal_pixel(nCostTable, currentLine, currentRow, g) ==
  IF nCostTable = NULL THEN [line |-> 0, column |-> 0]
  ELSE IF currentLine <= 0 THEN [line |-> 0, column |-> 0]
  ELSE
    LET row == nCostTable.table[currentLine - 1]
        left == Cell(row, currentRow - 1, g)
        mid == Cell(row, currentRow, g)
        right == Cell(row, currentRow + 1, g)
    IN
    IF currentRow = 0 THEN                              \* left edge
      [line |-> currentLine - 1,
       column |-> IF mid < right THEN currentRow ELSE currentRow + 1]
    ELSE IF currentRow = nCostTable.width - 1 THEN      \* right edge
      [line |-> currentLine - 1,
       column |-> IF mid < left THEN currentRow ELSE currentRow - 1]
    ELSE IF left < mid /\ mid < right THEN
      [line |-> currentLine - 1, column |-> currentRow - 1]
    ELSE IF mid < right THEN
      [line |-> currentLine - 1, column |-> currentRow]
    ELSE
      [line |-> currentLine - 1, column |-> currentRow + 1]

(* ScanLastLine with <= for <: a tie moves the position to the right. *)
RECURSIVE ScanLastLineKeepsLast(_, _, _, _)
ScanLastLineKeepsLast(row, i, width, acc) ==
  IF i >= width THEN acc
  ELSE IF row[i] <= acc.min
       THEN ScanLastLineKeepsLast(row, i + 1, width, [min |-> row[i], pos |-> i])
       ELSE ScanLastLineKeepsLast(row, i + 1, width, acc)

(* The scan of the last line: [min, pos] after columns i..width-1, started *)
(* with minLastLine = FLT_MAX and positionLastLine = -1.                   *)
RECURSIVE ScanLastLine(_, _, _, _)
ScanLastLine(row, i, width, acc) ==
  IF i >= width THEN acc
  ELSE IF row[i] < acc.min
       THEN ScanLastLine(row, i + 1, width, [min |-> row[i], pos |-> i])
       ELSE ScanLastLine(row, i + 1, width, acc)

(* The while loop of find_optimal_groove: lines currentLine down to 0. *)
RECURSIVE Backtrack(_, _, _, _)
Backtrack(nCostTable, path, currentLine, g) ==
  IF currentLine < 0 THEN path
  ELSE
    LET nvPixel == find_optimal_pixel(nCostTable, currentLine + 1,
                                      path[currentLine + 1].column, g)
    IN Backtrack(nCostTable,
                 [path EXCEPT ![currentLine] =
                    [line |-> currentLine, column |-> nvPixel.column]],
                 currentLine - 1, g)

(* find_optimal_groove(): the groove, when its two mallocs succeed. *)
find_optimal_groove(nCostTable, g) ==
  IF nCostTable = NULL THEN NULL
  ELSE
    LET h == nCostTable.height
        last == ScanLastLine(nCostTable.table[h - 1], 0, nCostTable.width,
                             [min |-> FLT_MAX, pos |-> -1])
        raw == [i \in 0..(h - 1) |-> RAW]
        bottom == [raw EXCEPT ![h - 1] = [line |-> h - 1, column |-> last.pos]]
    IN [path |-> Backtrack(nCostTable, bottom, h - 2, g), cost |-> last.min]

(* ----------------------------------------------------------------------- *)
(* SeamRemover                                                             *)
(* ----------------------------------------------------------------------- *)

(* shift_left(): data[i] = data[i + 1] for position <= i < width*height-1, *)
(* with the width the image has now.  With width * height = 0 the bound    *)
(* wraps to SIZE_MAX and the loop runs off the end of the pixel buffer:    *)
(* segv is that crash.                                                     *)
shift_left(image, position) ==
  IF image = NULL THEN [rc |-> -1, segv |-> FALSE, image |-> image]
  ELSE IF image.data = NULL THEN [rc |-> -2, segv |-> FALSE, image |-> image]
  ELSE IF image.width * image.height = 0
    THEN [rc |-> 0, segv |-> TRUE, image |-> image]
  ELSE
    LET n == image.width * image.height IN
    [rc |-> 0, segv |-> FALSE,
     image |-> [image EXCEPT !.data.pixels =
                  [i \in DOMAIN image.data.pixels |->
                     IF i >= position /\ i < n - 1 THEN image.data.pixels[i + 1]
                     ELSE image.data.pixels[i]]]]

(* The for loop of remove_groove_image: lines i..height-1. *)
RECURSIVE RemoveLines(_, _, _)
RemoveLines(image, nGroove, i) ==
  IF i >= image.height THEN [rc |-> 0, segv |-> FALSE, image |-> image]
  ELSE
    LET indexOfPixelToRemove ==
          (nGroove.path[i].line * image.width) + nGroove.path[i].column
        resultShift == shift_left(image, indexOfPixelToRemove)
    IN IF resultShift.segv THEN resultShift
       ELSE IF resultShift.rc < 0
         THEN [rc |-> -1, segv |-> FALSE, image |-> resultShift.image]
       ELSE RemoveLines(resultShift.image, nGroove, i + 1)

(* remove_groove_image(): [rc, segv, image]; rc is the return value.  The  *)
(* path of a groove of the model is never NULL (find_optimal_groove frees  *)
(* the groove when the malloc of its path fails).                          *)
remove_groove_image(image, nGroove) ==
  IF image = NULL THEN [rc |-> -2, segv |-> FALSE, image |-> image]
  ELSE IF image.data = NULL THEN [rc |-> -3, segv |-> FALSE, image |-> image]
  ELSE IF nGroove = NULL THEN [rc |-> -4, segv |-> FALSE, image |-> image]
  ELSE IF image.width <= 0 THEN [rc |-> -6, segv |-> FALSE, image |-> image]
  ELSE RemoveLines([image EXCEPT !.width = image.width - 1], nGroove, 0)

(* ----------------------------------------------------------------------- *)
(* CostTableUpdater                                                        *)
(* ----------------------------------------------------------------------- *)

(* The first loop of update_cost_table on line i: the cells from the       *)
(* groove's column on move one position left; the last cell stays.         *)
ShiftLine(row, column, width) ==
  [j \in DOMAIN row |->
     IF j >= column /\ j < width - 1 THEN row[j + 1] ELSE row[j]]

(* One line i >= 1 of the last loop of update_cost_table: the left edge,   *)
(* then the cells from the groove's column to width - 2, then the right    *)
(* edge (the last write wins); the other cells keep their value.           *)
UpdateLine(image, i, row, above, column, g) ==
  LET w == image.width IN
  [j \in DOMAIN row |->
     IF j = w - 1 THEN
       pixel_energy(image, i, w - 1)
         + min_with_two_arguments(Cell(above, w - 1, g), Cell(above, w - 2, g))
     ELSE IF j >= column /\ j < w - 1 THEN
       pixel_energy(image, i, j)
         + min_with_three_arguments(Cell(above, j, g), Cell(above, j + 1, g),
                                    Cell(above, j - 1, g))
     ELSE IF j = 0 THEN
       pixel_energy(image, i, 0)
         + min_with_two_arguments(Cell(above, 0, g), Cell(above, 1, g))
     ELSE row[j]]

RECURSIVE UpdateLines(_, _, _, _, _)
UpdateLines(image, table, optimalGroove, i, g) ==
  IF i >= image.height THEN table
  ELSE UpdateLines(image,
                   [table EXCEPT ![i] =
                      UpdateLine(image, i, table[i], table[i - 1],
                                 optimalGroove.path[i].column, g)],
                   optimalGroove, i + 1, g)

(* update_cost_table with the --nCostTable->width forgotten. *)
update_cost_table_KeepsWidth(image, nCostTable, optimalGroove, g) ==
  IF nCostTable = NULL THEN NULL
  ELSE IF optimalGroove = NULL THEN NULL
  ELSE
    LET shifted == [i \in DOMAIN nCostTable.table |->
                      ShiftLine(nCostTable.table[i],
                                optimalGroove.path[i].column, nCostTable.width)]
    IN [width |-> nCostTable.width, height |-> nCostTable.height,
        table |-> UpdateLines(image, shifted, optimalGroove, 1, g)]

(* update_cost_table(): the table after the update, or NULL. *)
update_cost_table(image, nCostTable, optimalGroove, g) ==
  IF nCostTable = NULL THEN NULL
  ELSE IF optimalGroove = NULL THEN NULL
  ELSE
    LET shifted == [i \in DOMAIN nCostTable.table |->
                      ShiftLine(nCostTable.table[i],
                                optimalGroove.path[i].column, nCostTable.width)]
        first == [shifted EXCEPT ![0] =
                    [j \in DOMAIN shifted[0] |->
                       IF j >= optimalGroove.path[0].column /\ j < image.width
                       THEN pixel_energy(image, 0, j) ELSE shifted[0][j]]]
    IN IF \E j \in DOMAIN first[0] :
            j >= optimalGroove.path[0].column /\ j < image.width /\ first[0][j] < 0
       THEN NULL
       ELSE [width |-> nCostTable.width - 1, height |-> nCostTable.height,
             table |-> UpdateLines(image, first, optimalGroove, 1, g)]

(* ----------------------------------------------------------------------- *)
(* Controller: reduceImageWidth(image, k)                                  *)
(* ----------------------------------------------------------------------- *)

(* copy_pnm_image(): [rc, destination]. *)
copy_pnm_image(source, destination) ==
  IF source = NULL THEN [rc |-> -1, destination |-> destination]
  ELSE IF source.data = NULL THEN [rc |-> -2, destination |-> destination]
  ELSE IF destination = NULL THEN [rc |-> -3, destination |-> destination]
  ELSE IF destination.data = NULL THEN [rc |-> -4, destination |-> destination]
  ELSE IF source.width # destination.width \/ source.height # destination.height
    THEN [rc |-> -5, destination |-> destination]
  ELSE [rc |-> 0,
        destination |-> [destination EXCEPT !.data.pixels =
          [i \in DOMAIN destination.data.pixels |->
             IF i < source.width * source.height THEN source.data.pixels[i]
             ELSE destination.data.pixels[i]]]]

VARIABLES
  image,          \* the caller's image (never written)
  k,              \* the number of grooves to remove
  reducedImage,   \* the working copy: NULL or [width, height, data]
  nCostTable,     \* NULL or [width, height, table]
  optimalGroove,  \* UNINIT, NULL or [path, cost]
  number,         \* the counter of the for loop
  pc,             \* the position in reduceImageWidth
  ret,            \* the value returned, NORET before the return
  heap            \* the objects allocated by the call and not yet freed

vars == <<image, k, reducedImage, nCostTable, optimalGroove, number, pc, ret, heap>>

(* No value returned yet. *)
NORET == [ptr |-> "NORET"]

(* The images a caller can pass: every size up to the bounds, every        *)
(* colouring, and images whose data pointer is NULL.                       *)
Images ==
  UNION { UNION { { [width |-> w, height |-> h, data |-> d] :
                      d \in { [pixels |-> p] : p \in [0..(w * h - 1) -> Colours] }
                             \cup {NULL} }
                  : h \in { x \in 1..MaxHeight : w * x <= MaxPixels } }
          : w \in 1..MaxWidth }

Init ==
  /\ image \in Images
  /\ k \in 0..MaxK
  /\ reducedImage = NULL
  /\ nCostTable = NULL
  /\ optimalGroove = UNINIT
  /\ number = 0
  /\ pc = "create"
  /\ ret = NORET
  /\ heap = {}

(* reducedImage = createPNM(width, height): the pixels are not initialised. *)
CreatePNM ==
  /\ pc = "create"
  /\ \E ok \in BOOLEAN :
       IF ok
       THEN /\ reducedImage' = [width |-> image.width, height |-> image.height,
                                data |-> [pixels |->
                                  [i \in 0..(image.width * image.height - 1)
                                     |-> RAW]]]
            /\ heap' = heap \cup {"reducedImage"}
            /\ pc' = "copy"
            /\ ret' = ret
       ELSE /\ reducedImage' = NULL
            /\ heap' = heap
            /\ pc' = "done"
            /\ ret' = NULL
  /\ UNCHANGED <<image, k, nCostTable, optimalGroove, number>>

(* resultCopy = copy_pnm_image(image, reducedImage); on failure the code   *)
(* returns NULL at once.                                                   *)
CopyImage ==
  /\ pc = "copy"
  /\ LET r == copy_pnm_image(image, reducedImage) IN
       IF r.rc < 0
       THEN /\ pc' = "done"
            /\ ret' = NULL
            /\ UNCHANGED reducedImage
       ELSE /\ reducedImage' = r.destination
            /\ pc' = "compute"
            /\ ret' = ret
  /\ UNCHANGED <<image, k, nCostTable, optimalGroove, number, heap>>

(* nCostTable = compute_cost_table(reducedImage); a malloc of it may fail. *)
ComputeCostTable ==
  /\ pc = "compute"
  /\ \E ok \in BOOLEAN, g \in Garbage :
       LET t == IF ok THEN compute_cost_table(reducedImage, g) ELSE NULL IN
       /\ nCostTable' = t
       /\ IF t = NULL
          THEN /\ heap' = heap \ {"reducedImage"}       \* freePNM(reducedImage)
               /\ pc' = "done"
               /\ ret' = NULL
          ELSE /\ heap' = heap \cup {"nCostTable"}
               /\ pc' = "loop"
               /\ ret' = ret
  /\ UNCHANGED <<image, k, reducedImage, optimalGroove, number>>

(* number < k: optimalGroove = find_optimal_groove(nCostTable); a malloc   *)
(* of it may fail.                                                         *)
FindGroove ==
  /\ pc = "loop"
  /\ number < k
  /\ \E ok \in BOOLEAN, g \in Garbage :
       LET gr == IF ok THEN find_optimal_groove(nCostTable, g) ELSE NULL IN
       /\ optimalGroove' = gr
       /\ heap' = IF gr = NULL THEN heap ELSE heap \cup {"optimalGroove"}
  /\ pc' = "remove"
  /\ UNCHANGED <<image, k, reducedImage, nCostTable, number, ret>>

(* resultRemove = remove_groove_image(reducedImage, optimalGroove). *)
RemoveGroove ==
  /\ pc = "remove"
  /\ LET r == remove_groove_image(reducedImage, optimalGroove) IN
       IF r.segv
       THEN /\ reducedImage' = r.image
            /\ pc' = "crashed"
            /\ UNCHANGED <<heap, ret>>
       ELSE IF r.rc < 0
       THEN /\ reducedImage' = r.image
            /\ heap' = {}     \* destroy_groove, destroy_cost_table, freePNM
            /\ pc' = "done"
            /\ ret' = NULL
       ELSE /\ reducedImage' = r.image
            /\ pc' = "update"
            /\ UNCHANGED <<heap, ret>>
  /\ UNCHANGED <<image, k, nCostTable, optimalGroove, number>>

(* nCostTable = update_cost_table(reducedImage, nCostTable, optimalGroove). *)
UpdateCostTable ==
  /\ pc = "update"
  /\ \E g \in Garbage :
       LET t == update_cost_table(reducedImage, nCostTable, optimalGroove, g) IN
       /\ nCostTable' = t
       /\ IF t = NULL
          THEN /\ heap' = {}  \* destroy_cost_table in the callee, then the rest
               /\ pc' = "done"
               /\ ret' = NULL
          ELSE /\ pc' = "destroy"
               /\ UNCHANGED <<heap, ret>>
  /\ UNCHANGED <<image, k, reducedImage, optimalGroove, number>>

(* destroy_groove(optimalGroove); optimalGroove = NULL; ++number. *)
DestroyGroove ==
  /\ pc = "destroy"
  /\ heap' = heap \ {"optimalGroove"}
  /\ optimalGroove' = NULL
  /\ number' = number + 1
  /\ pc' = "loop"
  /\ UNCHANGED <<image, k, reducedImage, nCostTable, ret>>

(* number >= k: if(optimalGroove) destroy_groove(optimalGroove);           *)
(* destroy_cost_table(nCostTable); return reducedImage.  A pointer that    *)
(* was never assigned is either zero or wild; destroy_groove of a wild     *)
(* pointer frees what was never allocated and the call crashes.            *)
Return ==
  /\ pc = "loop"
  /\ number >= k
  /\ \E wild \in BOOLEAN :
       IF optimalGroove = UNINIT /\ wild
       THEN /\ pc' = "crashed"
            /\ UNCHANGED <<heap, ret>>
       ELSE /\ heap' = heap \ {"optimalGroove", "nCostTable"}
            /\ pc' = "done"
            /\ ret' = reducedImage
  /\ UNCHANGED <<image, k, reducedImage, nCostTable, optimalGroove, number>>

Next ==
  \/ CreatePNM
  \/ CopyImage
  \/ ComputeCostTable
  \/ FindGroove
  \/ RemoveGroove
  \/ UpdateCostTable
  \/ DestroyGroove
  \/ Return

Spec == Init /\ [][Next]_vars

(* ----------------------------------------------------------------------- *)
(* Properties                                                              *)
(* ----------------------------------------------------------------------- *)

(* The caller passed an image with pixels. *)
ValidInput == image.data # NULL

(* The columns of a groove, line by line. *)
Columns(nGroove) == [r \in DOMAIN nGroove.path |-> nGroove.path[r].column]

(* Line r of img (stride img.width) without the pixel of column c. *)
LineWithout(img, r, c) ==
  [j \in 0..(img.width - 2) |->
     img.data.pixels[(r * img.width) + (IF j < c THEN j ELSE j + 1)]]

(* Line r of img, read with stride img.width. *)
Line(img, r) == [j \in 0..(img.width - 1) |-> img.data.pixels[(r * img.width) + j]]

(* C1: a successful remove_groove_image, given one column in [0, W) per    *)
(* line, makes the width W - 1, keeps the height, and leaves in every line *)
(* r the old line r without the pixel of column path[r].column, the other  *)
(* pixels in their order.                                                  *)
C1_RemoveDeletesSeamPixels ==
  [][ ( /\ pc = "remove"
        /\ pc' = "update"
        /\ \A r \in 0..(reducedImage.height - 1) :
             /\ optimalGroove.path[r].column >= 0
             /\ optimalGroove.path[r].column < reducedImage.width )
      => ( /\ reducedImage'.width = reducedImage.width - 1
           /\ reducedImage'.height = reducedImage.height
           /\ \A r \in 0..(reducedImage.height - 1) :
                Line(reducedImage', r)
                  = LineWithout(reducedImage, r, optimalGroove.path[r].column) )
    ]_vars

(* The cells update_cost_table writes in its recompute loops, for a groove *)
(* nGroove and an image of width w and height h after the removal.         *)
RecomputedCells(nGroove, w, h) ==
  { <<0, j>> : j \in { x \in 0..(w - 1) : x >= nGroove.path[0].column } }
  \cup { c \in (1..(h - 1)) \X (0..(w - 1)) :
           \/ c[2] = 0
           \/ c[2] = w - 1
           \/ (c[2] >= nGroove.path[c[1]].column /\ c[2] < w - 1) }

(* C2: after update_cost_table has run on the narrowed image, the table's  *)
(* width is the image's width and every cell the update recomputed holds   *)
(* the value compute_cost_table gives that cell on the narrowed image.     *)
(* Stated where neither function reads outside a row: the narrowed image   *)
(* is at least 2 wide and the groove is in column 0 on no line below 0.    *)
C2_UpdateMatchesRebuild ==
  ( /\ pc = "destroy"
    /\ reducedImage.width >= 2
    /\ \A r \in 1..(reducedImage.height - 1) :
         optimalGroove.path[r].column > 0 ) =>
    /\ nCostTable.width = reducedImage.width
    /\ \A c \in RecomputedCells(optimalGroove, reducedImage.width,
                                reducedImage.height) :
         \E g \in Garbage :
           nCostTable.table[c[1]][c[2]]
             = compute_cost_table(reducedImage, g).table[c[1]][c[2]]

(* The sum of the pixel energies of img along the columns cols, lines      *)
(* 0..r.                                                                   *)
RECURSIVE PathEnergy(_, _, _)
PathEnergy(img, cols, r) ==
  IF r < 0 THEN 0
  ELSE pixel_energy(img, r, cols[r]) + PathEnergy(img, cols, r - 1)

(* The connected top-to-bottom paths of a w x h table: one column per      *)
(* line, the columns of two adjacent lines at most 1 apart.                *)
ConnectedPaths(w, h) ==
  { p \in [0..(h - 1) -> 0..(w - 1)] :
      \A r \in 1..(h - 1) : Abs(p[r] - p[r - 1]) <= 1 }

(* C3: on a table just built from the image, the groove of                 *)
(* find_optimal_groove has minimal total cost: the pixel energies along    *)
(* its path add up to its cost and no connected path has a smaller sum.    *)
(* Stated for images at least 2 wide, where compute_cost_table and         *)
(* find_optimal_pixel read no cell outside a row.                          *)
C3_GrooveIsMinimal ==
  (pc = "remove" /\ number = 0 /\ optimalGroove # NULL /\ image.width >= 2) =>
    /\ PathEnergy(reducedImage, Columns(optimalGroove), reducedImage.height - 1)
         = optimalGroove.cost
    /\ \A p \in ConnectedPaths(reducedImage.width, reducedImage.height) :
         PathEnergy(reducedImage, p, reducedImage.height - 1)
           >= optimalGroove.cost

(* C4: every groove find_optimal_groove returns, in every iteration, has   *)
(* one entry per line with path[r].line = r, every column in               *)
(* [0, table width), and the columns of adjacent lines at most 1 apart.    *)
(* Stated for input images at least 2 wide.                                *)
C4_GrooveWellFormed ==
  (pc = "remove" /\ optimalGroove # NULL /\ image.width >= 2) =>
    /\ DOMAIN optimalGroove.path = 0..(nCostTable.height - 1)
    /\ \A r \in DOMAIN optimalGroove.path :
         /\ optimalGroove.path[r].line = r
         /\ optimalGroove.path[r].column >= 0
         /\ optimalGroove.path[r].column < nCostTable.width
    /\ \A r \in 1..(nCostTable.height - 1) :
         Abs(optimalGroove.path[r].column - optimalGroove.path[r - 1].column) <= 1

(* The call is over: it returned or it crashed. *)
Over == pc \in {"done", "crashed"}

(* C5: for a valid W x H image and 0 <= k < W the call terminates after    *)
(* exactly k iterations and returns an image of width W - k and height H   *)
(* (a NULL return after a failed allocation aside).                        *)
C5_ReturnsNarrowedImage ==
  (ValidInput /\ k < image.width /\ Over) =>
    /\ pc = "done"
    /\ ret # NULL =>
         /\ number = k
         /\ ret.width = image.width - k
         /\ ret.height = image.height

(* C6: reduceImageWidth(image, 0) returns an image of the input's width    *)
(* and height whose pixels are the input's, one for one (a NULL return     *)
(* after a failed allocation aside).                                       *)
C6_ZeroIsCopy ==
  (ValidInput /\ k = 0 /\ Over) =>
    /\ pc = "done"
    /\ ret # NULL =>
         /\ ret.width = image.width
         /\ ret.height = image.height
         /\ \A r \in 0..(image.height - 1) : Line(ret, r) = Line(image, r)

(* C7: for k >= W the call never ends with a zero-width image as its       *)
(* result: it is rejected before any removal or it fails with an error,    *)
(* that is, it returns NULL having removed nothing.                        *)
C7_TooLargeKRejected ==
  (ValidInput /\ k >= image.width) =>
    /\ pc # "crashed"
    /\ pc = "done" => ret = NULL
    /\ reducedImage # NULL => reducedImage.width = image.width

(* C8: when a step of the call fails, the call returns NULL and by then    *)
(* everything it allocated (working image, cost table, groove) is freed.   *)
C8_FailureReleasesAll ==
  (pc = "done" /\ ret = NULL) => heap = {}

(* Every pixel of img has the same colour. *)
OneColour(img) ==
  \A a, b \in DOMAIN img.data.pixels : img.data.pixels[a] = img.data.pixels[b]

(* C9: in an image of any size W >= 1, H >= 1 whose pixels all have the    *)
(* same colour, pixel_energy is 0 at every (i, j).                         *)
C9_FlatImageHasNoEnergy ==
  (ValidInput /\ OneColour(image)) =>
    \A i \in 0..(image.height - 1), j \in 0..(image.width - 1) :
      pixel_energy(image, i, j) = 0

(* The images of a state that have pixels: the caller's image and, once    *)
(* copied, the working image, while it is not empty.                       *)
ImagesOfState ==
  (IF ValidInput THEN {image} ELSE {})
  \cup (IF /\ reducedImage # NULL
           /\ reducedImage.width >= 1
           /\ \A a \in DOMAIN reducedImage.data.pixels :
                reducedImage.data.pixels[a] # RAW
        THEN {reducedImage} ELSE {})

(* C10: pixel_energy is >= 0 at every valid (i, j) of a non-empty image,   *)
(* and negative exactly when the index is out of range.                    *)
C10_EnergyNonNegative ==
  \A img \in ImagesOfState :
    \A i \in (-1)..img.height, j \in (-1)..img.width :
      (pixel_energy(img, i, j) >= 0)
        <=> (i >= 0 /\ i < img.height /\ j >= 0 /\ j < img.width)

(* C10's case: an image, narrowed by a groove, with a pixel of positive    *)
(* energy that the updated cost table holds in its first line.             *)
C10_Witness ==
  /\ pc = "destroy"
  /\ \E j \in 0..(reducedImage.width - 1) :
       /\ pixel_energy(reducedImage, 0, j) > 0
       /\ nCostTable.table[0][j] = pixel_energy(reducedImage, 0, j)

(* The cost table exists and the call is between the table build and its   *)
(* return.                                                                 *)
TableLive == nCostTable # NULL /\ pc \in {"loop", "remove", "update", "destroy"}

(* C11 as stated: after the table build, after every seam removal and      *)
(* after every table update the cost table's width is the working image's  *)
(* width, and the table's height is the image's height at all times.       *)
C11_TableMatchesImage ==
  TableLive =>
    /\ nCostTable.width = reducedImage.width
    /\ nCostTable.height = reducedImage.height

(* C11 amended: after the table build and after every table update the     *)
(* cost table's width is the working image's width; after a seam removal,  *)
(* until the table update that follows it, the table is exactly one column *)
(* wider than the image; the table's height is the working image's height  *)
(* and the input's height at all times.                                    *)
C11_TableMatchesImageAfterUpdate ==
  TableLive =>
    /\ nCostTable.height = reducedImage.height
    /\ reducedImage.height = image.height
    /\ pc \in {"loop", "remove", "destroy"} =>
         nCostTable.width = reducedImage.width
    /\ pc = "update" => nCostTable.width = reducedImage.width + 1

(* C11's case: the second iteration has removed its seam, after the first  *)
(* iteration's removal and update.                                         *)
C11_Witness ==
  /\ pc = "update"
  /\ number = 1
  /\ reducedImage.width = image.width - 2
  /\ reducedImage.width >= 1

(* The colour channels. *)
Channels == {"red", "green", "blue"}

(* Channel ch of pixel (i, j) of img, both in range. *)
X(img, i, j, ch) == img.data.pixels[(i * img.width) + j][ch]

(* Twice the term of one axis in exact arithmetic: the centred difference  *)
(* of the two neighbours lo and hi when both are in range, twice the       *)
(* one-sided difference with the neighbour that is in range otherwise      *)
(* (nothing when there is none).                                           *)
ExactTermTwice(x, lo, hi, loIn, hiIn) ==
  IF loIn /\ hiIn THEN Abs(lo - hi)
  ELSE IF hiIn THEN 2 * Abs(x - hi)
  ELSE IF loIn THEN 2 * Abs(lo - x)
  ELSE 0

(* The term of one axis as an int: the difference of the two neighbours    *)
(* when both are in range, of the pixel and its in-range neighbour         *)
(* otherwise, halved with the quotient truncated; with no neighbour in     *)
(* range on the axis, the difference with the error code err.              *)
TruncTerm(x, lo, hi, loIn, hiIn, err) ==
  IF loIn /\ hiIn THEN Abs(lo - hi) \div 2
  ELSE IF hiIn THEN Abs(x - hi) \div 2
  ELSE IF loIn THEN Abs(lo - x) \div 2
  ELSE Abs(x - err) \div 2

(* Twice the energy of channel ch at (i, j) by the formula of C12. *)
ExactEnergyTwice(img, i, j, ch) ==
  LET up == i - 1 >= 0
      down == i + 1 < img.height
      left == j - 1 >= 0
      right == j + 1 < img.width
  IN ExactTermTwice(X(img, i, j, ch),
                    IF up THEN X(img, i - 1, j, ch) ELSE 0,
                    IF down THEN X(img, i + 1, j, ch) ELSE 0, up, down)
     + ExactTermTwice(X(img, i, j, ch),
                      IF left THEN X(img, i, j - 1, ch) ELSE 0,
                      IF right THEN X(img, i, j + 1, ch) ELSE 0, left, right)

(* The energy of channel ch at (i, j) with every term halved and           *)
(* truncated.                                                              *)
TruncEnergy(img, i, j, ch) ==
  LET up == i - 1 >= 0
      down == i + 1 < img.height
      left == j - 1 >= 0
      right == j + 1 < img.width
  IN TruncTerm(X(img, i, j, ch),
               IF up THEN X(img, i - 1, j, ch) ELSE 0,
               IF down THEN X(img, i + 1, j, ch) ELSE 0, up, down, -3)
     + TruncTerm(X(img, i, j, ch),
                 IF left THEN X(img, i, j - 1, ch) ELSE 0,
                 IF right THEN X(img, i, j + 1, ch) ELSE 0, left, right, -4)

(* The pixel (a, b) is inside img. *)
InRange(img, c) ==
  c[1] >= 0 /\ c[1] < img.height /\ c[2] >= 0 /\ c[2] < img.width

(* The images of a state that no earlier state of the call had: the        *)
(* caller's image when the call starts and the working image right after   *)
(* a seam removal, while it is not empty.                                  *)
NewImagesOfState ==
  IF pc = "create" /\ ValidInput THEN {image}
  ELSE IF pc = "update" /\ reducedImage.width >= 1 THEN {reducedImage}
  ELSE {}

(* C12 as stated: for every pixel and channel of an image at least 2 wide  *)
(* and 2 high, color_energy is the formula in exact arithmetic (centred    *)
(* differences halved, one-sided differences neither halved nor            *)
(* truncated), no out-of-range neighbour is read, and pixel_energy is the  *)
(* sum over the three channels.                                            *)
C12_EnergyIsExactFormula ==
  \A img \in NewImagesOfState :
    (img.width >= 2 /\ img.height >= 2) =>
      \A i \in 0..(img.height - 1), j \in 0..(img.width - 1) :
        /\ \A ch \in Channels :
             2 * color_energy(img, i, j, ch) = ExactEnergyTwice(img, i, j, ch)
        /\ \A c \in NeighboursRead(img, i, j) : InRange(img, c)
        /\ 2 * pixel_energy(img, i, j)
             = ExactEnergyTwice(img, i, j, "red")
               + ExactEnergyTwice(img, i, j, "green")
               + ExactEnergyTwice(img, i, j, "blue")

(* C12 amended: for every pixel and channel, color_energy is the sum of    *)
(* the two axis terms in int arithmetic, each the centred or the one-sided *)
(* difference halved with the quotient truncated; pixel_energy is the sum  *)
(* over the three channels; no out-of-range neighbour is read exactly when *)
(* the image is at least 2 wide and 2 high, and on an image of width 1 or  *)
(* height 1 the axis without a neighbour reads color_value's error code.   *)
C12_EnergyIsTruncatedFormula ==
  \A img \in NewImagesOfState :
    \A i \in 0..(img.height - 1), j \in 0..(img.width - 1) :
      /\ \A ch \in Channels :
           color_energy(img, i, j, ch) = TruncEnergy(img, i, j, ch)
      /\ (\A c \in NeighboursRead(img, i, j) : InRange(img, c))
           <=> (img.width >= 2 /\ img.height >= 2)
      /\ pixel_energy(img, i, j)
           = TruncEnergy(img, i, j, "red") + TruncEnergy(img, i, j, "green")
             + TruncEnergy(img, i, j, "blue")

(* C12's case: a 3 x 3 image whose interior pixel has a truncated term     *)
(* (the greens left and right of it differ by 3) and whose top left        *)
(* corner has a one-sided difference.                                      *)
C12_Witness ==
  /\ ValidInput
  /\ image.width = 3
  /\ image.height = 3
  /\ Abs(X(image, 1, 0, "green") - X(image, 1, 2, "green")) = 3
  /\ X(image, 0, 0, "red") # X(image, 0, 1, "red")
  /\ color_energy(image, 1, 1, "green") >= 1

(* The least element of a non-empty set of integers. *)
Least(S) == CHOOSE x \in S : \A y \in S : x <= y

(* The connected paths from line 0 that end at (i, j) in a table w wide.   *)
PathsEndingAt(w, i, j) == { p \in ConnectedPaths(w, i + 1) : p[i] = j }

(* The table was just built from the working image: no seam removed yet.   *)
TableJustBuilt == pc = "loop" /\ number = 0 /\ nCostTable # NULL

(* The recurrence and the path minimum hold in every cell of the table     *)
(* just built.                                                             *)
TableIsMinimalPathCost ==
  LET w == reducedImage.width
      h == reducedImage.height
      t == nCostTable.table
  IN
  /\ nCostTable.width = w
  /\ nCostTable.height = h
  /\ \A j \in 0..(w - 1) : t[0][j] = pixel_energy(reducedImage, 0, j)
  /\ \A i \in 1..(h - 1), j \in 0..(w - 1) :
       t[i][j] = pixel_energy(reducedImage, i, j)
                 + Least({ t[i - 1][c] : c \in {j - 1, j, j + 1} \cap (0..(w - 1)) })
  /\ \A i \in 0..(h - 1), j \in 0..(w - 1) :
       t[i][j] = Least({ PathEnergy(reducedImage, p, i) :
                           p \in PathsEndingAt(w, i, j) })

(* C13: for every non-empty W x H image, W = 1 included, the table of      *)
(* compute_cost_table has table[0][j] = energy(0, j) and, below line 0,    *)
(* table[i][j] = energy(i, j) + the least of the cells above it in columns *)
(* j - 1, j, j + 1 that are inside [0, W); each cell is the least          *)
(* cumulative energy of the connected paths from line 0 that end there.    *)
C13_TableIsMinimalPathCost ==
  TableJustBuilt => TableIsMinimalPathCost

(* The cells of the cone of a groove in a table w wide and h high: on     *)
(* line i the columns [path[0].column - i, path[0].column + i] inside      *)
(* [0, w).                                                                 *)
ConeCells(nGroove, w, h) ==
  { c \in (0..(h - 1)) \X (0..(w - 1)) :
      /\ c[2] >= nGroove.path[0].column - c[1]
      /\ c[2] <= nGroove.path[0].column + c[1] }

(* Cell (i, j) of the table old after the left shift of line i from the    *)
(* groove's column on.                                                     *)
ShiftedCell(old, nGroove, i, j) ==
  IF j >= nGroove.path[i].column THEN old.table[i][j + 1] ELSE old.table[i][j]

(* The cells of the narrowed table that are outside the groove's cone. *)
OutsideCone ==
  ((0..(reducedImage.height - 1)) \X (0..(reducedImage.width - 1)))
    \ ConeCells(optimalGroove, reducedImage.width, reducedImage.height)

(* C14: update_cost_table, run after the removal of a seam, leaves in      *)
(* every cell outside the seam's cone the left-shifted old value, and that *)
(* value is the one compute_cost_table gives the cell on the narrowed      *)
(* image.  Stated where neither function reads outside a row and no pixel  *)
(* lacks a vertical neighbour: the narrowed image is at least 2 wide and 2 *)
(* high and the groove is in column 0 on no line below 0.                  *)
C14_OutsideConeKeepsRebuiltValue ==
  [][ ( /\ pc = "update"
        /\ pc' = "destroy"
        /\ reducedImage.width >= 2
        /\ reducedImage.height >= 2
        /\ \A r \in 1..(reducedImage.height - 1) :
             optimalGroove.path[r].column > 0 )
      => \A c \in OutsideCone :
           /\ nCostTable'.table[c[1]][c[2]]
                = ShiftedCell(nCostTable, optimalGroove, c[1], c[2])
           /\ \E g \in Garbage :
                nCostTable'.table[c[1]][c[2]]
                  = compute_cost_table(reducedImage, g).table[c[1]][c[2]]
    ]_vars

(* The columns c - 1, c, c + 1 that are inside a table w wide. *)
Candidates(c, w) == {c - 1, c, c + 1} \cap (0..(w - 1))

(* C15: every pixel find_optimal_pixel returned to find_optimal_groove, on *)
(* line r for the column c chosen on line r + 1, is one of the columns     *)
(* c - 1, c, c + 1 inside the table and has the smallest cost of them in   *)
(* table[r].  Stated for tables at least 2 wide, where find_optimal_pixel  *)
(* reads no cell outside a row.                                            *)
C15_PredecessorIsSmallest ==
  (pc = "remove" /\ optimalGroove # NULL /\ nCostTable.width >= 2) =>
    \A r \in 0..(nCostTable.height - 2) :
      LET c == optimalGroove.path[r + 1].column
          cand == Candidates(c, nCostTable.width)
      IN /\ optimalGroove.path[r].column \in cand
         /\ nCostTable.table[r][optimalGroove.path[r].column]
              = Least({ nCostTable.table[r][x] : x \in cand })

(* The cells of the last line of the cost table, inside its width. *)
LastLine == [j \in 0..(nCostTable.width - 1) |->
               nCostTable.table[nCostTable.height - 1][j]]

(* The least value of the last line of the cost table. *)
LastLineMin == Least({ LastLine[j] : j \in DOMAIN LastLine })

(* C16: the bottom entry of every groove find_optimal_groove returns is    *)
(* (H - 1, c), c being the lowest column whose cell of the table's last    *)
(* line is the least of that line, and the groove's cost is that least     *)
(* value.                                                                  *)
C16_BottomIsFirstMinimum ==
  (pc = "remove" /\ optimalGroove # NULL) =>
    /\ optimalGroove.path[nCostTable.height - 1].line = nCostTable.height - 1
    /\ optimalGroove.path[nCostTable.height - 1].column
         = Least({ j \in DOMAIN LastLine : LastLine[j] = LastLineMin })
    /\ optimalGroove.cost = LastLineMin

(* C16's case: a groove found on a table whose last line has its least     *)
(* value in two columns, neither of them column 0.                         *)
C16_Witness ==
  /\ pc = "remove"
  /\ optimalGroove # NULL
  /\ LastLine[0] > LastLineMin
  /\ Cardinality({ j \in DOMAIN LastLine : LastLine[j] = LastLineMin }) >= 2
  /\ optimalGroove.path[nCostTable.height - 1].column = 1

(* The cells table[i][j] the line loop of compute_cost_table reads and     *)
(* writes on line i of an image w wide (j is a size_t: w - 2 with w = 1    *)
(* wraps, here -1).                                                        *)
LineAccesses(i, w, first) ==
  {<<i, 0>>, <<i - 1, 0>>, <<i - 1, 1>>}
  \cup UNION { {<<i, j>>, <<i - 1, j>>, <<i - 1, j + 1>>, <<i - 1, j - 1>>} :
                 j \in { x \in first..(w - 2) : x < w - 1 } }
  \cup {<<i, w - 1>>, <<i - 1, w - 1>>, <<i - 1, w - 2>>}

(* The cells compute_cost_table accesses for an image w wide and h high. *)
ComputeAccesses(w, h) ==
  { <<0, j>> : j \in 0..(w - 1) }
  \cup UNION { LineAccesses(i, w, 1) : i \in 1..(h - 1) }

(* The cells find_optimal_pixel reads for the pixel (currentLine,          *)
(* currentRow) of a table w wide.                                          *)
PixelAccesses(currentLine, currentRow, w) ==
  IF currentRow = 0
    THEN {<<currentLine - 1, currentRow>>, <<currentLine - 1, currentRow + 1>>}
  ELSE IF currentRow = w - 1
    THEN {<<currentLine - 1, currentRow>>, <<currentLine - 1, currentRow - 1>>}
  ELSE {<<currentLine - 1, currentRow - 1>>, <<currentLine - 1, currentRow>>,
        <<currentLine - 1, currentRow + 1>>}

(* The cells find_optimal_groove and its calls of find_optimal_pixel read  *)
(* in a table w wide and h high, the groove returned being nGroove.        *)
FindAccesses(nGroove, w, h) ==
  { <<h - 1, j>> : j \in 0..(w - 1) }
  \cup UNION { PixelAccesses(l, nGroove.path[l].column, w) : l \in 1..(h - 1) }

(* The cells update_cost_table accesses: the table is tw wide before the   *)
(* update, the image w wide after the removal, both h high.                *)
UpdateAccesses(nGroove, tw, w, h) ==
  UNION { UNION { {<<i, j>>, <<i, j + 1>>} :
                    j \in { x \in nGroove.path[i].column..(tw - 2) : x < tw - 1 } }
          : i \in 0..(h - 1) }
  \cup { <<0, j>> : j \in { x \in nGroove.path[0].column..(w - 1) : x < w } }
  \cup UNION { LineAccesses(i, w, nGroove.path[i].column) : i \in 1..(h - 1) }

(* The cell c is inside the rows allocated for the cost table. *)
Allocated(c) ==
  /\ c[1] \in DOMAIN nCostTable.table
  /\ c[2] \in DOMAIN nCostTable.table[c[1]]

(* The cells the last engine operation accessed in the cost table. *)
AccessesOfState ==
  IF pc = "loop" /\ number = 0 /\ nCostTable # NULL
    THEN ComputeAccesses(reducedImage.width, reducedImage.height)
  ELSE IF pc = "remove" /\ optimalGroove # NULL
    THEN FindAccesses(optimalGroove, nCostTable.width, nCostTable.height)
  ELSE IF pc = "destroy"
    THEN UpdateAccesses(optimalGroove, nCostTable.width + 1,
                        reducedImage.width, reducedImage.height)
  ELSE {}

(* C17: in a call with W >= 2 and k < W, every cell table[i][j] that       *)
(* compute_cost_table, find_optimal_pixel and update_cost_table access has *)
(* 0 <= i < the table's height and 0 <= j < the allocated width of its     *)
(* row, also when the seam is in column 0 on a line i >= 1.                *)
C17_TableAccessesInBounds ==
  (image.width >= 2 /\ k < image.width) =>
    \A c \in AccessesOfState : Allocated(c)

(* optimalGroove holds a groove find_optimal_groove returned in this call  *)
(* that destroy_groove has not freed yet.                                  *)
GrooveIsLive ==
  /\ optimalGroove # UNINIT
  /\ optimalGroove # NULL
  /\ "optimalGroove" \in heap

(* C18: for every k >= 0, k = 0 included, destroy_groove is applied only   *)
(* to a groove find_optimal_groove returned in this call and not yet       *)
(* destroyed, or to NULL; every groove is destroyed by the end of its      *)
(* iteration; and optimalGroove is never read before it was assigned: the  *)
(* test of optimalGroove after the loop finds it assigned.                 *)
C18_GrooveDestroyedOnce ==
  /\ pc = "destroy" => GrooveIsLive
  /\ pc = "loop" => "optimalGroove" \notin heap
  /\ (pc = "loop" /\ number >= k) => optimalGroove = NULL
  /\ pc \in {"remove", "update", "destroy"} => optimalGroove # UNINIT

====
